---- MODULE Spec2Model ----
(***************************************************************************)
(* Model of the pull-feed account reader in src/src/lib.rs: the            *)
(* discriminator-checked zero-copy cast (PullFeedAccountData::parse), the  *)
(* staleness-filtered median (PullFeedAccountData::get_value,              *)
(* lower_bound_median) and the accessors of the stored CurrentResult.      *)
(*                                                                         *)
(* TLC's integers are 32 bits wide, the program's are 64 and 128 bits      *)
(* wide.  A u64 is therefore kept as 4 and an i128 as 8 little-endian      *)
(* limbs of 16 bits (two's complement for i128), and the arithmetic the    *)
(* program does on them (subtraction, comparison, negation) is done limb   *)
(* by limb, so that it is exact at the full width.                         *)
(***************************************************************************)
EXTENDS Integers, Sequences, FiniteSets, TLC

VARIABLES
    submissions,      \* self.submissions: [OracleSubmission; 32], each [slot, value]
    result,           \* self.result: CurrentResult
    numbers,          \* the Vec<i128> handed to lower_bound_median
    overflow_checks,  \* build profile: does integer overflow panic (debug) or wrap (release)
    data,             \* the byte buffer handed to parse
    data_addr,        \* address of data[0], modulo 16
    i128_align,       \* align_of::<i128>() of the target: 8 or 16
    call,             \* the call made, with its arguments; op = "none" before it
    local,            \* get_value's local `submissions`: indices of the collected references
    ret               \* what the call returned, or how it aborted

vars == <<submissions, result, numbers, overflow_checks, data, data_addr,
          i128_align, call, local, ret>>

---------------------------------------------------------------------------
(* Fixed-width integers as little-endian sequences of 16-bit limbs *)

Base == 2^16
U64Limbs == 64 \div 16
I128Limbs == 128 \div 16

\* the k-limb number with value n, for 0 <= n < Base
Lit(n, k) == [i \in 1..k |-> IF i = 1 THEN n ELSE 0]
\* the k-limb number with all bits set
AllOnes(k) == [i \in 1..k |-> Base - 1]

U64(n) == Lit(n, U64Limbs)
U64Max == AllOnes(U64Limbs)

\* the i128 with value n, for -Base < n < Base (two's complement)
I128(n) ==
    IF n >= 0 THEN Lit(n, I128Limbs)
    ELSE [i \in 1..I128Limbs |-> IF i = 1 THEN Base + n ELSE Base - 1]
I128Min == [i \in 1..I128Limbs |-> IF i = I128Limbs THEN Base \div 2 ELSE 0]
I128Max == [i \in 1..I128Limbs |-> IF i = I128Limbs THEN (Base \div 2) - 1 ELSE Base - 1]

\* a - b on equally long limb sequences from limb i on, with incoming borrow;
\* the result is the difference modulo Base^Len(a) followed by the final borrow
RECURSIVE SubLimbs(_, _, _, _)
SubLimbs(a, b, i, borrow) ==
    IF i > Len(a) THEN <<borrow>>
    ELSE LET d == a[i] - b[i] - borrow
         IN  IF d < 0 THEN <<d + Base>> \o SubLimbs(a, b, i + 1, 1)
             ELSE <<d>> \o SubLimbs(a, b, i + 1, 0)

\* a + b likewise, followed by the final carry
RECURSIVE AddLimbs(_, _, _, _)
AddLimbs(a, b, i, carry) ==
    IF i > Len(a) THEN <<carry>>
    ELSE LET s == a[i] + b[i] + carry
         IN  IF s >= Base THEN <<s - Base>> \o AddLimbs(a, b, i + 1, 1)
             ELSE <<s>> \o AddLimbs(a, b, i + 1, 0)

WrappingSub(a, b) == SubSeq(SubLimbs(a, b, 1, 0), 1, Len(a))
Borrows(a, b) == SubLimbs(a, b, 1, 0)[Len(a) + 1] = 1

\* a < b as unsigned numbers, comparing from limb i downwards
RECURSIVE LtLimbs(_, _, _)
LtLimbs(a, b, i) ==
    IF i = 0 THEN FALSE
    ELSE IF a[i] # b[i] THEN a[i] < b[i]
    ELSE LtLimbs(a, b, i - 1)

\* u64 comparison
U64Gt(a, b) == a # b /\ LtLimbs(b, a, U64Limbs)

\* i128 comparison: the top bit is the sign
IsNeg(a) == a[Len(a)] >= Base \div 2
I128Lt(a, b) ==
    /\ a # b
    /\ IF IsNeg(a) # IsNeg(b) THEN IsNeg(a) ELSE LtLimbs(a, b, I128Limbs)
I128Le(a, b) == a = b \/ I128Lt(a, b)
\* -a modulo 2^128
I128Neg(a) == WrappingSub(Lit(0, I128Limbs), a)

---------------------------------------------------------------------------
(* Outcomes of a call *)

Idle == [tag |-> "Idle"]
Ok(v) == [tag |-> "Ok", val |-> v]
Err(e) == [tag |-> "Err", err |-> e]
Some(v) == [tag |-> "Some", val |-> v]
None == [tag |-> "None"]
\* a panic: the call does not return
Abort(msg) == [tag |-> "Abort", msg |-> msg]

---------------------------------------------------------------------------
(* rust_decimal::Decimal, as constructed by Decimal::from_i128_with_scale *)

PRECISION == 18
\* rust_decimal: the 96-bit mantissa, 2^96 - 1, as an i128
MAX_I128_REPR == [i \in 1..I128Limbs |-> IF i <= 96 \div 16 THEN Base - 1 ELSE 0]

\* Decimal::from_i128_with_scale(num, scale): try_from_i128_with_scale, and a
\* panic on its error (a scale above 28, or a magnitude above 96 bits).  The
\* Decimal keeps sign, scale and the 96-bit magnitude as three 32-bit words
\* (here two limbs each).
from_i128_with_scale(num, scale) ==
    IF scale > 28
    THEN Abort("Scale exceeds the maximum precision allowed")
    ELSE IF I128Lt(MAX_I128_REPR, num)
    THEN Abort("Number exceeds maximum value that can be represented")
    ELSE IF I128Lt(num, I128Neg(MAX_I128_REPR))
    THEN Abort("Number less than minimum value that can be represented")
    ELSE LET neg == I128Lt(num, I128(0))
             mag == IF neg THEN I128Neg(num) ELSE num
         IN  Ok([negative |-> neg, scale |-> scale,
                 lo |-> SubSeq(mag, 1, 2), mid |-> SubSeq(mag, 3, 4),
                 hi |-> SubSeq(mag, 5, 6)])

---------------------------------------------------------------------------
(* lower_bound_median *)

\* Vec::sort on i128: the stable ascending sort.  rank[i] is the place of s[i]
\* in the sorted vector: behind the smaller elements and the equal ones that
\* precede it.
sort(s) ==
    LET n == Len(s)
        rank == SubSeq([i \in 1..n |->
                    1 + Cardinality({j \in 1..n :
                            IF s[j] = s[i] THEN j < i
                            ELSE I128Lt(s[j], s[i])})], 1, n)
    IN  SubSeq([k \in 1..n |-> s[CHOOSE i \in 1..n : rank[i] = k]], 1, n)

\* the picked index is one lower for even lengths
lower_bound_median_lower(nums) ==
    LET sorted == sort(nums)
        len == Len(sorted)
    IN  [numbers |-> sorted,
         ret |-> IF len = 0 THEN None ELSE Some(sorted[((len - 1) \div 2) + 1])]

\* lower_bound_median(numbers): sorts the vector in place and returns
\* numbers[len / 2] (0-based), or None for an empty vector
lower_bound_median(nums) ==
    LET sorted == sort(nums)
        len == Len(sorted)
    IN  [numbers |-> sorted,
         ret |-> IF len = 0 THEN None ELSE Some(sorted[(len \div 2) + 1])]

---------------------------------------------------------------------------
(* OracleSubmission *)

SUBMISSIONS_LEN == 32

is_empty(s) == s.slot = U64(0)

OracleSubmission_value(s) == from_i128_with_scale(s.value, PRECISION)

---------------------------------------------------------------------------
(* PullFeedAccountData::get_value *)

\* clock.slot - max_staleness on u64: with overflow checks (the debug profile,
\* or overflow-checks = true) it panics when max_staleness > clock.slot,
\* without them it wraps modulo 2^64
sub_u64(a, b, checks) ==
    IF checks /\ Borrows(a, b) THEN Abort("attempt to subtract with overflow")
    ELSE Ok(WrappingSub(a, b))

\* the number of elements take_while(|s| !s.is_empty()) passes on: those
\* before the first empty one
populated(subs) ==
    IF \E i \in 1..Len(subs) : is_empty(subs[i])
    THEN (CHOOSE i \in 1..Len(subs) :
              is_empty(subs[i]) /\ \A j \in 1..(i - 1) : ~is_empty(subs[j])) - 1
    ELSE Len(subs)

\* self.submissions.iter().take_while(|s| !s.is_empty())
\*     .filter(|s| s.slot > clock.slot - max_staleness).collect()
\* as the indices of the references collected.  The iterator is lazy: per
\* element first take_while's predicate, then filter's closure, which is
\* where the subtraction is evaluated (its outcome, the same for every
\* element, is threshold): only an empty populated prefix never evaluates it.
collect(subs, threshold) ==
    LET n == populated(subs)
        keep(i) == U64Gt(subs[i].slot, threshold.val)
    IN  IF n = 0 THEN Ok(<<>>)
        ELSE IF threshold.tag = "Abort" THEN threshold
        ELSE Ok(SelectSeq([i \in 1..n |-> i], keep))

\* the rest of get_value, given the collected vector (indices into subs)
get_value_of(subs, collected, min_samples, only_positive) ==
    IF Len(collected) < min_samples THEN Err("NotEnoughSamples")
    ELSE LET median ==
                 lower_bound_median([k \in 1..Len(collected) |-> subs[collected[k]].value]).ret
         IN  IF median.tag = "None" THEN Err("NotEnoughSamples")
             ELSE IF only_positive /\ I128Le(median.val, I128(0))
             THEN Err("IllegalFeedValue")
             ELSE from_i128_with_scale(median.val, PRECISION)

get_value(subs, slot, max_staleness, min_samples, only_positive, checks) ==
    LET c == collect(subs, sub_u64(slot, max_staleness, checks))
    IN  IF c.tag = "Abort" THEN [local |-> <<>>, ret |-> c]
        ELSE [local |-> c.val,
              ret |-> get_value_of(subs, c.val, min_samples, only_positive)]

---------------------------------------------------------------------------
(* The #[repr(C)] layout of the records, and PullFeedAccountData::parse *)

RoundUp(n, a) == ((n + a - 1) \div a) * a

\* repr(C): each field at the next offset its alignment allows, the size
\* rounded up to the largest alignment
RECURSIVE EndOf(_, _)
EndOf(fields, k) ==
    IF k = 0 THEN 0
    ELSE RoundUp(EndOf(fields, k - 1), fields[k].align) + fields[k].size
OffsetOf(fields, k) == RoundUp(EndOf(fields, k - 1), fields[k].align)
RECURSIVE MaxAlign(_, _)
MaxAlign(fields, k) ==
    IF k = 0 THEN 1
    ELSE LET m == MaxAlign(fields, k - 1)
         IN  IF fields[k].align > m THEN fields[k].align ELSE m
AlignOf(fields) == MaxAlign(fields, Len(fields))
SizeOf(fields) == RoundUp(EndOf(fields, Len(fields)), AlignOf(fields))

Field(name, size, align) == [name |-> name, size |-> size, align |-> align]

\* a is align_of::<i128>(); u64 and i64 are 8-aligned, u32 and f32 4-aligned,
\* bytes and Pubkey ([u8; 32]) 1-aligned
OracleSubmissionFields(a) ==
    << Field("oracle", 32, 1), Field("slot", 8, 8), Field("padding1", 8, 1),
       Field("value", 16, a) >>

CurrentResultFields(a) ==
    << Field("value", 16, a), Field("std_dev", 16, a), Field("mean", 16, a),
       Field("range", 16, a), Field("min_value", 16, a),
       Field("max_value", 16, a), Field("padding1", 8, 1),
       Field("slot", 8, 8), Field("min_slot", 8, 8), Field("max_slot", 8, 8) >>

CompactResultFields ==
    << Field("std_dev", 4, 4), Field("mean", 4, 4), Field("slot", 8, 8) >>

PullFeedAccountDataFields(a) ==
    << Field("submissions", SUBMISSIONS_LEN * SizeOf(OracleSubmissionFields(a)),
             AlignOf(OracleSubmissionFields(a))),
       Field("authority", 32, 1), Field("queue", 32, 1),
       Field("feed_hash", 32, 1), Field("initialized_at", 8, 8),
       Field("permissions", 8, 8), Field("max_variance", 8, 8),
       Field("min_responses", 4, 4), Field("name", 32, 1),
       Field("padding1", 2, 1), Field("historical_result_idx", 1, 1),
       Field("min_sample_size", 1, 1), Field("last_update_timestamp", 8, 8),
       Field("lut_slot", 8, 8), Field("_reserved1", 32, 1),
       Field("result", SizeOf(CurrentResultFields(a)),
             AlignOf(CurrentResultFields(a))),
       Field("max_staleness", 4, 4), Field("padding2", 12, 1),
       Field("historical_results", 32 * SizeOf(CompactResultFields),
             AlignOf(CompactResultFields)),
       Field("_ebuf4", 8, 1), Field("_ebuf3", 24, 1), Field("_ebuf2", 256, 1) >>

\* std::mem::size_of::<PullFeedAccountData>()
size_of_Self(a) == SizeOf(PullFeedAccountDataFields(a))

discriminator == <<196, 27, 108, 196, 10, 215, 219, 40>>

\* bytemuck::from_bytes::<T>(s): try_from_bytes and a panic on its error: the
\* slice must be exactly size_of::<T>() long and its address a multiple of
\* align_of::<T>().  The reference returned is the slice's bytes, in place.
from_bytes(s, addr, size, align) ==
    IF Len(s) # size THEN Abort("SizeMismatch")
    ELSE IF addr % align # 0
    THEN Abort("TargetAlignmentGreaterAndInputNotAligned")
    ELSE Ok(s)

\* the tag is compared on its first 7 bytes only
parse_short_tag(buf, addr, a) ==
    IF Len(buf) < Len(discriminator) THEN Err("InvalidDiscriminator")
    ELSE IF SubSeq(buf, 1, 7) # SubSeq(discriminator, 1, 7)
    THEN Err("InvalidDiscriminator")
    ELSE IF size_of_Self(a) + 8 > Len(buf)
    THEN Abort("range end index out of range for slice")
    ELSE from_bytes(SubSeq(buf, 8 + 1, size_of_Self(a) + 8), addr + 8,
                    size_of_Self(a), AlignOf(PullFeedAccountDataFields(a)))

\* PullFeedAccountData::parse(data), the buffer lying at address addr:
\* &data[8..size_of::<Self>() + 8] panics when the buffer ends before it
parse(buf, addr, a) ==
    IF Len(buf) < Len(discriminator) THEN Err("InvalidDiscriminator")
    ELSE LET disc_bytes == SubSeq(buf, 1, 8)
         IN  IF disc_bytes # discriminator THEN Err("InvalidDiscriminator")
             ELSE IF size_of_Self(a) + 8 > Len(buf)
             THEN Abort("range end index out of range for slice")
             ELSE from_bytes(SubSeq(buf, 8 + 1, size_of_Self(a) + 8), addr + 8,
                             size_of_Self(a),
                             AlignOf(PullFeedAccountDataFields(a)))

\* the bytes of field k of a record view
FieldBytes(view, fields, k) ==
    SubSeq(view, OffsetOf(fields, k) + 1, OffsetOf(fields, k) + fields[k].size)

---------------------------------------------------------------------------
(* CurrentResult and the accessors of PullFeedAccountData that forward to it *)

\* Some(Decimal::from_i128_with_scale(field, PRECISION)); the conversion's
\* panic leaves the accessor before Some is built
SomeDecimal(field) ==
    LET d == from_i128_with_scale(field, PRECISION)
    IN  IF d.tag = "Abort" THEN d ELSE Some(d.val)

CurrentResult_value(self) ==
    IF self.slot = U64(0) THEN None ELSE SomeDecimal(self.value)
CurrentResult_std_dev(self) ==
    IF self.slot = U64(0) THEN None ELSE SomeDecimal(self.std_dev)
CurrentResult_mean(self) ==
    IF self.slot = U64(0) THEN None ELSE SomeDecimal(self.mean)
CurrentResult_range(self) ==
    IF self.slot = U64(0) THEN None ELSE SomeDecimal(self.range)
CurrentResult_min_value(self) ==
    IF self.slot = U64(0) THEN None ELSE SomeDecimal(self.min_value)
CurrentResult_max_value(self) ==
    IF self.slot = U64(0) THEN None ELSE SomeDecimal(self.max_value)
CurrentResult_result_slot(self) ==
    IF self.slot = U64(0) THEN None ELSE Some(self.slot)
CurrentResult_min_slot(self) ==
    IF self.slot = U64(0) THEN None ELSE Some(self.min_slot)
CurrentResult_max_slot(self) ==
    IF self.slot = U64(0) THEN None ELSE Some(self.max_slot)

\* self is the record [submissions, result]
PullFeedAccountData_value(self) == CurrentResult_value(self.result)
PullFeedAccountData_std_dev(self) == CurrentResult_std_dev(self.result)
PullFeedAccountData_mean(self) == CurrentResult_mean(self.result)
PullFeedAccountData_range(self) == CurrentResult_range(self.result)
PullFeedAccountData_min_value(self) == CurrentResult_min_value(self.result)
PullFeedAccountData_max_value(self) == CurrentResult_max_value(self.result)

---------------------------------------------------------------------------
(* Inputs *)

\* longest explicitly enumerated head of the ledger
MaxEntries == 2
\* longest vector handed to lower_bound_median on its own
MaxLen == 3
\* most bytes a buffer holds behind the record
MaxTrailing == 1

\* 2^96, the smallest magnitude a Decimal cannot hold
Pow96 == [i \in 1..I128Limbs |-> IF i = (96 \div 16) + 1 THEN 1 ELSE 0]

Slots == {U64(0), U64(3), U64Max}
Values == {I128Min, I128(-1), I128(0), I128(2)}
Entries == [slot : Slots, value : Values]
\* a zeroed entry, and the populated entry a ledger's tail is filled with
Zeroed == [slot |-> U64(0), value |-> I128(0)]
Filler == [slot |-> U64(3), value |-> I128(1)]

Ledger(head, pad) ==
    [i \in 1..SUBMISSIONS_LEN |-> IF i <= Len(head) THEN head[i] ELSE pad]
Ledgers ==
    {Ledger(head, pad) :
        head \in UNION {[1..n -> Entries] : n \in 0..MaxEntries},
        pad \in {Zeroed, Filler}}
ZeroedLedger == Ledger(<<>>, Zeroed)

NumValues == {I128Min, I128(-1), I128(1), I128(3), I128(5)}
NumberLists == UNION {[1..n -> NumValues] : n \in 0..MaxLen}

ZeroedResult ==
    [value |-> I128(0), std_dev |-> I128(0), mean |-> I128(0), range |-> I128(0),
     min_value |-> I128(0), max_value |-> I128(0),
     slot |-> U64(0), min_slot |-> U64(0), max_slot |-> U64(0)]
Results ==
    [value : {I128(-7), I128Min, I128Neg(MAX_I128_REPR), MAX_I128_REPR, Pow96, I128Max},
     std_dev : {I128(1), Pow96},
     mean : {I128(2), I128Neg(Pow96)},
     range : {I128(3), Pow96},
     min_value : {I128(-4), I128Min},
     max_value : {I128(5), I128Max},
     slot : {U64(0), U64(1), U64Max},
     min_slot : {U64(0), U64(2)},
     max_slot : {U64(0), U64(6)}]

ClockSlots == {U64(0), U64(3)}
Stalenesses == {U64(0), U64(2)}
MinSamples == {0, 2, SUBMISSIONS_LEN + 1}

NoCall == [op |-> "none"]

---------------------------------------------------------------------------
(* Buffers for parse *)

Aligns == {8, 16}
DataAddrs == {0, 4, 8}
RecordSize == size_of_Self(16)
DataLens ==
    {0, 7, 8, 9, 8 + RecordSize - 1} \cup {8 + RecordSize + t : t \in 0..MaxTrailing}
\* the tag, and the tag with one byte changed
Tags ==
    {discriminator} \cup
    {[discriminator EXCEPT ![k] = (@ + 1) % 256] : k \in 1..Len(discriminator)}
Patterns == {0, 37}
Buffer(len, tag, p) ==
    [i \in 1..len |-> IF i <= Len(tag) THEN tag[i] ELSE (p * i) % 256]
Buffers == {Buffer(len, tag, p) : len \in DataLens, tag \in Tags, p \in Patterns}

---------------------------------------------------------------------------
(* The operations: one call per behaviour *)

NoBuffer ==
    /\ data = <<>>
    /\ data_addr = 0
    /\ i128_align = 16

NotCalled ==
    /\ call = NoCall
    /\ local = <<>>
    /\ ret = Idle

\* get_value, OracleSubmission::value and lower_bound_median
Init ==
    /\ \/ submissions \in Ledgers /\ numbers = <<>>
       \/ submissions = ZeroedLedger /\ numbers \in NumberLists
    /\ result = ZeroedResult
    /\ overflow_checks \in BOOLEAN
    /\ NoBuffer
    /\ NotCalled

GetValue ==
    /\ call.op = "none"
    /\ \E slot \in ClockSlots, max_staleness \in Stalenesses,
          min_samples \in MinSamples, only_positive \in BOOLEAN :
          LET r == get_value(submissions, slot, max_staleness, min_samples,
                             only_positive, overflow_checks)
          IN  /\ call' = [op |-> "get_value", slot |-> slot,
                          max_staleness |-> max_staleness,
                          min_samples |-> min_samples,
                          only_positive |-> only_positive]
              /\ local' = r.local
              /\ ret' = r.ret
    /\ UNCHANGED <<submissions, result, numbers, overflow_checks, data,
                   data_addr, i128_align>>

SubmissionValue ==
    /\ call.op = "none"
    /\ \E i \in 1..(MaxEntries + 1) :
          /\ call' = [op |-> "OracleSubmission::value", index |-> i]
          /\ ret' = OracleSubmission_value(submissions[i])
    /\ UNCHANGED <<submissions, result, numbers, overflow_checks, data,
                   data_addr, i128_align, local>>

LowerBoundMedian ==
    /\ call.op = "none"
    /\ LET r == lower_bound_median(numbers)
       IN  /\ call' = [op |-> "lower_bound_median", numbers |-> numbers]
           /\ numbers' = r.numbers
           /\ ret' = r.ret
    /\ UNCHANGED <<submissions, result, overflow_checks, data, data_addr,
                   i128_align, local>>

Next == GetValue \/ SubmissionValue \/ LowerBoundMedian

Spec == Init /\ [][Next]_vars

\* the accessors of the stored result
InitResult ==
    /\ submissions = ZeroedLedger
    /\ numbers = <<>>
    /\ result \in Results
    /\ overflow_checks \in BOOLEAN
    /\ NoBuffer
    /\ NotCalled

Accessor(op, r) ==
    /\ call.op = "none"
    /\ call' = [op |-> op]
    /\ ret' = r
    /\ UNCHANGED <<submissions, result, numbers, overflow_checks, data,
                   data_addr, i128_align, local>>

Self == [submissions |-> submissions, result |-> result]

CurrentResultValue == Accessor("CurrentResult::value", CurrentResult_value(result))
CurrentResultStdDev == Accessor("CurrentResult::std_dev", CurrentResult_std_dev(result))
CurrentResultMean == Accessor("CurrentResult::mean", CurrentResult_mean(result))
CurrentResultRange == Accessor("CurrentResult::range", CurrentResult_range(result))
CurrentResultMinValue == Accessor("CurrentResult::min_value", CurrentResult_min_value(result))
CurrentResultMaxValue == Accessor("CurrentResult::max_value", CurrentResult_max_value(result))
CurrentResultResultSlot == Accessor("CurrentResult::result_slot", CurrentResult_result_slot(result))
CurrentResultMinSlot == Accessor("CurrentResult::min_slot", CurrentResult_min_slot(result))
CurrentResultMaxSlot == Accessor("CurrentResult::max_slot", CurrentResult_max_slot(result))
FeedValue == Accessor("PullFeedAccountData::value", PullFeedAccountData_value(Self))
FeedStdDev == Accessor("PullFeedAccountData::std_dev", PullFeedAccountData_std_dev(Self))
FeedMean == Accessor("PullFeedAccountData::mean", PullFeedAccountData_mean(Self))
FeedRange == Accessor("PullFeedAccountData::range", PullFeedAccountData_range(Self))
FeedMinValue == Accessor("PullFeedAccountData::min_value", PullFeedAccountData_min_value(Self))
FeedMaxValue == Accessor("PullFeedAccountData::max_value", PullFeedAccountData_max_value(Self))

NextResult ==
    \/ CurrentResultValue \/ CurrentResultStdDev \/ CurrentResultMean
    \/ CurrentResultRange \/ CurrentResultMinValue \/ CurrentResultMaxValue
    \/ CurrentResultResultSlot \/ CurrentResultMinSlot \/ CurrentResultMaxSlot
    \/ FeedValue \/ FeedStdDev \/ FeedMean \/ FeedRange \/ FeedMinValue
    \/ FeedMaxValue

SpecResult == InitResult /\ [][NextResult]_vars

\* parse: no record is decoded yet
InitParse ==
    /\ submissions = <<>>
    /\ numbers = <<>>
    /\ result = <<>>
    /\ overflow_checks \in BOOLEAN
    /\ data \in Buffers
    /\ data_addr \in DataAddrs
    /\ i128_align \in Aligns
    /\ NotCalled

Parse ==
    /\ call.op = "none"
    /\ call' = [op |-> "parse"]
    /\ ret' = parse(data, data_addr, i128_align)
    /\ UNCHANGED <<submissions, result, numbers, overflow_checks, data,
                   data_addr, i128_align, local>>

NextParse == Parse

SpecParse == InitParse /\ [][NextParse]_vars

---------------------------------------------------------------------------
(* What the claims speak of *)

Range(s) == {s[k] : k \in 1..Len(s)}

\* the populated prefix: the entries with no empty entry at or before them
PopulatedIdx ==
    {i \in 1..SUBMISSIONS_LEN : \A j \in 1..i : submissions[j].slot # U64(0)}

\* (clock.slot - max_staleness) mod 2^64 of the get_value call made
Threshold == WrappingSub(call.slot, call.max_staleness)

\* slot > t: t - slot is negative
Above(t, i) == Borrows(t, submissions[i].slot)
Fresh(i) == Above(Threshold, i)

\* the submissions get_value is to retain
RetainedIdx == LET t == Threshold IN {i \in PopulatedIdx : Above(t, i)}

QuorumMet ==
    /\ Cardinality(RetainedIdx) >= call.min_samples
    /\ RetainedIdx # {}

\* v is the element at index len/2 (0-based) of the values vals[i], i in S,
\* sorted ascending: at most len/2 of them are smaller, more than len/2 are
\* not greater
MedianOf(v, vals, S) ==
    /\ \E i \in S : vals[i] = v
    /\ Cardinality({i \in S : I128Lt(vals[i], v)}) <= Cardinality(S) \div 2
    /\ Cardinality({i \in S : ~I128Lt(v, vals[i])}) > Cardinality(S) \div 2

\* the median of the retained values (QuorumMet)
RetainedMedian ==
    submissions[CHOOSE i \in RetainedIdx :
        MedianOf(submissions[i].value,
                 [j \in 1..SUBMISSIONS_LEN |-> submissions[j].value],
                 RetainedIdx)].value

\* the Decimal d is the i128 v divided by 10^18: scale 18, and the 96-bit
\* magnitude with the sign gives back v
Magnitude(d) == d.lo \o d.mid \o d.hi \o <<0, 0>>
Represents(d, v) ==
    /\ d.scale = 18
    /\ IF d.negative
       THEN SubSeq(AddLimbs(v, Magnitude(d), 1, 0), 1, I128Limbs) = I128(0)
       ELSE v = Magnitude(d)

Tag == <<196, 27, 108, 196, 10, 215, 219, 40>>
TagMatches == Len(data) >= 8 /\ SubSeq(data, 1, 8) = Tag

DecimalAccessors ==
    {"CurrentResult::value", "CurrentResult::std_dev", "CurrentResult::mean",
     "CurrentResult::range", "CurrentResult::min_value",
     "CurrentResult::max_value", "PullFeedAccountData::value",
     "PullFeedAccountData::std_dev", "PullFeedAccountData::mean",
     "PullFeedAccountData::range", "PullFeedAccountData::min_value",
     "PullFeedAccountData::max_value"}
SlotAccessors ==
    {"CurrentResult::result_slot", "CurrentResult::min_slot",
     "CurrentResult::max_slot"}

\* the stored field an accessor is documented to read
StoredField(op) ==
    CASE op \in {"CurrentResult::value", "PullFeedAccountData::value"} -> result.value
      [] op \in {"CurrentResult::std_dev", "PullFeedAccountData::std_dev"} -> result.std_dev
      [] op \in {"CurrentResult::mean", "PullFeedAccountData::mean"} -> result.mean
      [] op \in {"CurrentResult::range", "PullFeedAccountData::range"} -> result.range
      [] op \in {"CurrentResult::min_value", "PullFeedAccountData::min_value"} -> result.min_value
      [] op \in {"CurrentResult::max_value", "PullFeedAccountData::max_value"} -> result.max_value
      [] op = "CurrentResult::result_slot" -> result.slot
      [] op = "CurrentResult::min_slot" -> result.min_slot
      [] op = "CurrentResult::max_slot" -> result.max_slot

---------------------------------------------------------------------------
(* The claims *)

\* C1: parse fails with InvalidDiscriminator for every buffer shorter than 8
\* bytes and for every buffer whose first 8 bytes differ from the tag; no
\* record view is returned for them.
C1_InvalidDiscriminator ==
    (call.op = "parse" /\ ~TagMatches) => ret = Err("InvalidDiscriminator")

\* a full-length, well-aligned buffer whose tag differs in its last byte only
C1_Witness ==
    /\ call.op = "parse"
    /\ Len(data) >= 8 + RecordSize
    /\ (data_addr + 8) % i128_align = 0
    /\ SubSeq(data, 1, 7) = SubSeq(Tag, 1, 7)
    /\ data[8] # Tag[8]
    /\ ret = Err("InvalidDiscriminator")

\* C2: InvalidDiscriminator is the only failure mode of parse: for every buffer
\* of at least 8 bytes whose first 8 bytes are the tag, also one shorter than
\* 8 + size_of::<PullFeedAccountData>(), the cast does not fail and parse
\* returns a record view.
C2_NoOtherFailure ==
    (call.op = "parse" /\ TagMatches) => ret.tag = "Ok"

\* C3: for every buffer that starts with the tag and is at least
\* 8 + size_of::<PullFeedAccountData>() long, parse succeeds and every field of
\* the view is the buffer's bytes at 8 + the field's offset; trailing bytes are
\* ignored.
C3_FieldsAtOffsets ==
    (call.op = "parse" /\ TagMatches /\ Len(data) >= 8 + RecordSize) =>
        /\ ret.tag = "Ok"
        /\ Len(ret.val) = RecordSize
        /\ LET fields == PullFeedAccountDataFields(i128_align)
           IN  \A k \in 1..Len(fields) :
                   FieldBytes(ret.val, fields, k) =
                       SubSeq(data, 8 + OffsetOf(fields, k) + 1,
                              8 + OffsetOf(fields, k) + fields[k].size)

\* C4: get_value fails with NotEnoughSamples exactly when fewer than
\* min_samples submissions are retained or none is (also with min_samples = 0);
\* the quorum check precedes the sign check, so too few retained submissions
\* with a non-positive median and only_positive give NotEnoughSamples.
C4_NotEnoughSamples ==
    call.op = "get_value" =>
        (~QuorumMet <=> ret = Err("NotEnoughSamples"))

C6_IllegalFeedValue ==
    (call.op = "get_value" /\ QuorumMet) =>
        /\ ret = Err("IllegalFeedValue") <=>
               (call.only_positive /\ I128Le(RetainedMedian, I128(0)))
        /\ (~call.only_positive /\ I128Le(RetainedMedian, I128(0))) =>
               (ret.tag = "Ok" /\ Represents(ret.val, RetainedMedian))
        /\ (call.only_positive /\ ret.tag = "Ok") =>
               (~ret.val.negative /\ Magnitude(ret.val) # I128(0))

\* C7: get_value retains exactly the populated-prefix submissions whose slot is
\* strictly greater than (current_slot - max_staleness) mod 2^64, and when
\* max_staleness > current_slot the call still completes with a result or a
\* typed error: the subtraction wraps and does not abort.
C7_WrappingStaleness ==
    call.op = "get_value" =>
        /\ ret # Abort("attempt to subtract with overflow")
        /\ Range(local) = RetainedIdx
        /\ \A k \in 1..(Len(local) - 1) : local[k] < local[k + 1]

\* C8: get_value considers the populated prefix only: no submission behind the
\* first empty entry is collected, a ledger whose entry 0 is empty gives an
\* empty selection, and a ledger with all 32 entries populated is scanned in
\* full, every fresh entry of it being collected.
C8_PopulatedPrefix ==
    call.op = "get_value" =>
        /\ Range(local) \subseteq PopulatedIdx
        /\ submissions[1].slot = U64(0) => local = <<>>
        /\ (\A i \in 1..SUBMISSIONS_LEN : submissions[i].slot # U64(0)) =>
               Range(local) = {i \in 1..SUBMISSIONS_LEN : Fresh(i)}

\* C9: every accessor of the stored result returns absent when the stored slot
\* is 0 and otherwise present with exactly the stored field it is named after
\* (min_slot and max_slot also when they are 0); the accessors of
\* PullFeedAccountData return what those of its result field return.
C9_Accessors ==
    call.op \in DecimalAccessors \cup SlotAccessors =>
        IF result.slot = U64(0) THEN ret = None
        ELSE /\ ret.tag = "Some"
             /\ IF call.op \in SlotAccessors
                THEN ret.val = StoredField(call.op)
                ELSE Represents(ret.val, StoredField(call.op))

\* C10: the conversion of a stored i128 to a decimal at scale 18 is total:
\* OracleSubmission::value, get_value and the accessors return the decimal equal
\* to the integer divided by 10^18 or fail with DecimalConversionError; they
\* never abort in the conversion and never truncate.
C10_TotalConversion ==
    /\ call.op = "OracleSubmission::value" =>
           \/ ret = Err("DecimalConversionError")
           \/ /\ ret.tag = "Ok"
              /\ Represents(ret.val, submissions[call.index].value)
    /\ call.op = "get_value" =>
           /\ ret.tag = "Abort" => ret = Abort("attempt to subtract with overflow")
           /\ ret.tag = "Ok" => \E i \in RetainedIdx :
                                    Represents(ret.val, submissions[i].value)
    /\ call.op \in DecimalAccessors => ret.tag # "Abort"

====
